---- MODULE Spec2Model ----
(***************************************************************************)
(* The MCQUIZ backend: payment initiation, the PayHere notification        *)
(* webhook, admin approval / rejection, the forced updates of a user's     *)
(* subscription level, and the feedback handlers.                          *)
(*                                                                         *)
(* Under Spec, SpecWebhook, SpecInitiate and SpecFeedback each handler runs *)
(* against the document store as one request; under SpecSteps approval and *)
(* rejection run one database call at a time, interleaved.  Strings that   *)
(* the code concatenates are strings here, so that two different field     *)
(* tuples with the same concatenation hash alike, as in the code.          *)
(***************************************************************************)
EXTENDS Integers, Sequences, FiniteSets, TLC

VARIABLES
    subs,      \* the Subscription collection, in insertion order; _id = index
    level,     \* User.subscriptionLevel of every registered user
    paidLog,   \* users named by the "Payment successful for user" log line
    resp,      \* the last response: the handler, the HTTP status and the body
    feedbacks, \* the Feedback collection, in insertion order; _id = index
    procs      \* the approve / reject requests in flight under SpecSteps

vars == <<subs, level, paidLog, resp, feedbacks, procs>>

---------------------------------------------------------------------------
(* Bounds of the model *)

MaxSubs == 1      \* subscription documents created under Spec
MaxOrders == 2    \* subscription documents created under SpecWebhook
MaxTime == 2      \* Date.now() ranges over 1..MaxTime
MaxFeedback == 2  \* feedback documents created under SpecFeedback
MaxListed == 3    \* feedback documents created under SpecPages

---------------------------------------------------------------------------
(* The User collection, the callers and the request inputs *)

Registered == {"u1", "u2"}              \* users with a User document
AuthUsers == {"u1", "u3"}               \* req.user.userId of a valid token;
                                        \* "u3" has no User document any more
NoUser == "anonymous"                   \* req.user missing
DefaultLevel == "Basic"

planTypeEnum == {"basic", "Basic", "School Pro", "O/L Pro", "A/L Pro",
                 "school", "ol_pro", "al_pro"}
statusEnum == {"pending", "paid", "success", "failed", "canceled", "chargedback"}
validLevels == {"basic", "Basic", "School Pro", "O/L Pro", "A/L Pro",
                "school", "ol_pro", "al_pro"}

PlanInputs == {"School Pro", "O/L Pro", "Gold"}       \* "Gold" is no plan
LevelInputs == {"Basic", "School Pro", "Gold"}
\* req.body.amount: a JSON number, a numeric string, or text
AmountInputs == {[kind |-> "number", v |-> 1500],
                 [kind |-> "numstring", v |-> 1500],
                 [kind |-> "text", v |-> 0]}
ReasonInputs == {"", "duplicate"}        \* "" stands for no (or an empty) reason
NoValue == "undefined"
RandInputs == {7, 42}                     \* values of Math.floor(Math.random() * 1000)

ValidityDays == 365                       \* the validity window, in days
Procs == {1, 2}                           \* requests in flight at one time
\* a request: the handler, its subscriptionId and reason, the database call
\* it is about to make, its response status (0: none yet), whether it died
Idle == [op |-> "idle", sid |-> 0, reason |-> "", pc |-> "idle", code |-> 0,
         failed |-> FALSE]

MerchantId == "M1"
MerchantSecret == "S3CR3T"
Currency == "LKR"

---------------------------------------------------------------------------
(* Hashing.  MD5 is taken to be collision free: the digest of a message is *)
(* a string that names the message.  What the code hashes is the string    *)
(* concatenation of the fields.                                            *)

Md5UpperHex(message) == "MD5[" \o message \o "]"

HashedSecret == Md5UpperHex(MerchantSecret)

\* amount.toFixed(2) of a whole number
ToFixed2(n) == ToString(n) \o ".00"

OrderIdOf(t, r) == "MC-" \o ToString(t) \o "-" \o ToString(r)

\* initializePayment: the hash handed to the hosted form
InitHash(merchantId, orderId, formattedAmount, currency) ==
    Md5UpperHex(merchantId \o orderId \o formattedAmount \o currency \o HashedSecret)

\* handlePaymentNotification: the signature it recomputes
CalculatedMd5sig(merchant_id, order_id, payhere_amount, payhere_currency, status_code) ==
    Md5UpperHex(merchant_id \o order_id \o payhere_amount \o payhere_currency
                \o status_code \o HashedSecret)

---------------------------------------------------------------------------
(* Document store helpers *)

Ids == 1..Len(subs)

\* Subscription.findOne({ orderId }): the first document in natural order
FindOneByOrderId(order_id) ==
    IF \E i \in Ids : subs[i].orderId = order_id
    THEN CHOOSE i \in Ids : /\ subs[i].orderId = order_id
                            /\ \A j \in Ids : subs[j].orderId = order_id => i <= j
    ELSE 0

\* createdAt of the newest document (Date.now() does not run backwards)
LastTime == IF Len(subs) = 0 THEN 1 ELSE subs[Len(subs)].createdAt

Response(op, code) == [op |-> op, code |-> code]

\* res.status(200).json({ success: true, paymentData })
FormResponse(paymentData) ==
    [op |-> "initializePayment", code |-> 200, paymentData |-> paymentData]

---------------------------------------------------------------------------
Init ==
    /\ subs = << >>
    /\ level = [u \in Registered |-> DefaultLevel]
    /\ paidLog = {}
    /\ resp = Response("none", 0)
    /\ feedbacks = << >>
    /\ procs = [p \in Procs |-> Idle]

---------------------------------------------------------------------------
(* POST /api/payment/initialize *)

\* new Date(ms + days * 24 * 60 * 60 * 1000), with ms a reading of the clock
DateOf(ms, days) == [ms |-> ms, days |-> days]

\* a record whose end date is the reading of the clock itself
NewSubscriptionEndsNow(userId, planType, amount, t, r, s, e) ==
    [userId |-> userId, planType |-> planType, createdAt |-> t,
     startDate |-> DateOf(s, 0), endDate |-> DateOf(e, 0),
     orderId |-> OrderIdOf(t, r), amount |-> amount.v, status |-> "pending",
     paymentId |-> NoValue, rejectionReason |-> NoValue]

\* the document built at lines 15-23: t, s and e are the readings of the clock
\* at lines 13, 18 and 19
NewSubscription(userId, planType, amount, t, r, s, e) ==
    [userId |-> userId, planType |-> planType, createdAt |-> t,
     startDate |-> DateOf(s, 0), endDate |-> DateOf(e, ValidityDays),
     orderId |-> OrderIdOf(t, r), amount |-> amount.v, status |-> "pending",
     paymentId |-> NoValue, rejectionReason |-> NoValue]

\* subscription.save() validates: planType in the enum, amount castable
SaveValidates(planType, amount) ==
    /\ planType \in planTypeEnum
    /\ amount.kind \in {"number", "numstring"}

\* a form whose hash covers the caller as well
PaymentDataHashedPerUser(userId, planType, amount, orderId) ==
    [merchant_id |-> MerchantId, order_id |-> orderId, items |-> planType,
     amount |-> ToFixed2(amount.v), currency |-> Currency,
     hash |-> InitHash(MerchantId \o userId, orderId, ToFixed2(amount.v), Currency),
     custom_1 |-> userId]

\* lines 46-66: the fields of the hosted form that depend on the request
PaymentData(userId, planType, amount, orderId) ==
    [merchant_id |-> MerchantId, order_id |-> orderId, items |-> planType,
     amount |-> ToFixed2(amount.v), currency |-> Currency,
     hash |-> InitHash(MerchantId, orderId, ToFixed2(amount.v), Currency),
     custom_1 |-> userId]

\* the response status of a request that passed validation
InitializeCode(userId, amount) ==
    IF amount.kind # "number" THEN 500          \* amount.toFixed is no function
    ELSE IF userId \notin Registered THEN 404
    ELSE 200

initializePayment(userId, planType, amount, t, r, s, e) ==
    /\ UNCHANGED <<level, paidLog>>
    /\ IF userId = NoUser
       THEN /\ subs' = subs
            /\ resp' = Response("initializePayment", 401)
       ELSE IF ~SaveValidates(planType, amount)
       THEN /\ subs' = subs
            /\ resp' = Response("initializePayment", 500)
       ELSE LET code == InitializeCode(userId, amount)
                sub == NewSubscription(userId, planType, amount, t, r, s, e)
            IN  /\ t >= LastTime /\ s >= t /\ e >= s
                /\ subs' = Append(subs, sub)      \* line 25, before lines 30 and 40
                /\ resp' = IF code = 200
                           THEN FormResponse(PaymentData(userId, planType, amount,
                                                         sub.orderId))
                           ELSE Response("initializePayment", code)

---------------------------------------------------------------------------
(* POST /api/payment/notify *)

statusMap == [c \in {"2", "0", "-1", "-2", "-3"} |->
                 CASE c = "2" -> "success"
                   [] c = "0" -> "pending"
                   [] c = "-1" -> "canceled"
                   [] c = "-2" -> "failed"
                   [] c = "-3" -> "chargedback"]

\* statusMap[status_code]
StatusMapLookup(status_code) ==
    IF status_code \in DOMAIN statusMap THEN statusMap[status_code] ELSE NoValue

\* lines 103-106: calculatedMd5sig !== md5sig
SignatureMatches(merchant_id, order_id, payhere_amount, payhere_currency, status_code, md5sig) ==
    CalculatedMd5sig(merchant_id, order_id, payhere_amount, payhere_currency,
                     status_code) = md5sig

\* a handler that activates the subscription on payment
NotifyStatusActivates(status_code) ==
    IF StatusMapLookup(status_code) # NoValue THEN StatusMapLookup(status_code)
    ELSE "pending"

\* a handler without the default for codes it does not know
NotifyStatusWithoutDefault(status_code) ==
    IF StatusMapLookup(status_code) = "success" THEN "paid"
    ELSE StatusMapLookup(status_code)

\* lines 127-132: the status written to the subscription
NotifyStatus(status_code) ==
    IF StatusMapLookup(status_code) = "success" THEN "paid"
    ELSE IF StatusMapLookup(status_code) # NoValue THEN StatusMapLookup(status_code)
    ELSE "pending"

\* a handler that upgrades the user as soon as the payment succeeded
LevelAfterNotificationUpgrades(lv, userId, planType, status_code) ==
    IF StatusMapLookup(status_code) = "success" /\ userId \in DOMAIN lv
    THEN [lv EXCEPT ![userId] = planType]
    ELSE lv

\* lines 126-129: the handler leaves the User document alone
LevelAfterNotification(lv, userId, planType, status_code) == lv

\* a handler that looks the order up before it checks the signature
NotifyCodeLookupFirst(merchant_id, order_id, payhere_amount, payhere_currency, status_code, md5sig) ==
    IF FindOneByOrderId(order_id) = 0 THEN 404
    ELSE IF ~SignatureMatches(merchant_id, order_id, payhere_amount, payhere_currency,
                              status_code, md5sig) THEN 400
    ELSE 200

\* the response status of the webhook in the current state
NotifyCode(merchant_id, order_id, payhere_amount, payhere_currency, status_code, md5sig) ==
    IF ~SignatureMatches(merchant_id, order_id, payhere_amount, payhere_currency,
                         status_code, md5sig) THEN 400
    ELSE IF FindOneByOrderId(order_id) = 0 THEN 404
    ELSE 200

handlePaymentNotification(merchant_id, order_id, payment_id, payhere_amount, payhere_currency, status_code, md5sig) ==
    LET code == NotifyCode(merchant_id, order_id, payhere_amount, payhere_currency,
                           status_code, md5sig)
        sid == FindOneByOrderId(order_id)
    IN  /\ resp' = Response("handlePaymentNotification", code)
        /\ IF code # 200
           THEN UNCHANGED <<subs, level, paidLog>>
           ELSE /\ subs' = [subs EXCEPT ![sid].paymentId = payment_id,
                                        ![sid].status = NotifyStatus(status_code)]
                /\ paidLog' = IF StatusMapLookup(status_code) = "success"
                              THEN paidLog \cup {subs[sid].userId}
                              ELSE paidLog
                /\ level' = LevelAfterNotification(level, subs[sid].userId,
                                                   subs[sid].planType, status_code)

---------------------------------------------------------------------------
(* PUT /api/subscriptions/:subscriptionId/approve and /reject *)

\* a guard that only refuses what is approved already
IsNotYetApproved(status) == status # "success"

\* subscriptionId 0 stands for a string that is no ObjectId (findById throws)
\* lines 118 and 160: ['pending', 'paid'].includes(subscription.status)
IsPendingOrPaid(status) == status \in {"pending", "paid"}

ApproveCode(subscriptionId) ==
    IF subscriptionId = 0 THEN 500
    ELSE IF subscriptionId \notin Ids THEN 404
    ELSE IF ~IsPendingOrPaid(subs[subscriptionId].status) THEN 400
    ELSE 200

\* an approval that forgets to save the user
LevelAfterApprovalKept(lv, userId, planType) == lv

\* lines 129-133: user.subscriptionLevel = subscription.planType, if the user exists
LevelAfterApproval(lv, userId, planType) ==
    IF userId \in DOMAIN lv THEN [lv EXCEPT ![userId] = planType] ELSE lv

approveSubscription(subscriptionId) ==
    LET code == ApproveCode(subscriptionId)
    IN  /\ resp' = Response("approveSubscription", code)
        /\ UNCHANGED paidLog
        /\ IF code # 200
           THEN UNCHANGED <<subs, level>>
           ELSE /\ subs' = [subs EXCEPT ![subscriptionId].status = "success"]
                /\ level' = LevelAfterApproval(level, subs[subscriptionId].userId,
                                               subs[subscriptionId].planType)

RejectCode(subscriptionId) ==
    IF subscriptionId = 0 THEN 500
    ELSE IF subscriptionId \notin Ids THEN 404
    ELSE IF ~IsPendingOrPaid(subs[subscriptionId].status) THEN 400
    ELSE 200

\* a rejection that drops the reason
RejectedWithoutReason(sub, reason) == [sub EXCEPT !.status = "failed"]

\* lines 167-170: status 'failed', and the reason if it is truthy
Rejected(sub, reason) ==
    [sub EXCEPT !.status = "failed",
                !.rejectionReason = IF reason # "" THEN reason ELSE @]

rejectSubscription(subscriptionId, reason) ==
    LET code == RejectCode(subscriptionId)
    IN  /\ resp' = Response("rejectSubscription", code)
        /\ UNCHANGED <<level, paidLog>>
        /\ IF code # 200
           THEN UNCHANGED subs
           ELSE subs' = [subs EXCEPT ![subscriptionId] = Rejected(@, reason)]

---------------------------------------------------------------------------
(* Forced updates of the subscription level *)

\* the same query sorted by { createdAt: 1 }
OldestSuccess(userId) ==
    {i \in Ids : /\ subs[i].userId = userId
                 /\ subs[i].status = "success"
                 /\ \A j \in Ids : (subs[j].userId = userId /\ subs[j].status = "success")
                                      => subs[j].createdAt >= subs[i].createdAt}

\* Subscription.findOne({ userId, status: 'success' }).sort({ createdAt: -1 }):
\* a newest matching document, 0 if there is none
LatestSuccess(userId) ==
    {i \in Ids : /\ subs[i].userId = userId
                 /\ subs[i].status = "success"
                 /\ \A j \in Ids : (subs[j].userId = userId /\ subs[j].status = "success")
                                      => subs[j].createdAt <= subs[i].createdAt}

\* POST /api/payment/update-subscription
updateUserSubscription(userId) ==
    /\ UNCHANGED <<subs, paidLog>>
    /\ IF userId = NoUser
       THEN /\ level' = level
            /\ resp' = Response("updateUserSubscription", 401)
       ELSE IF LatestSuccess(userId) = {}
       THEN /\ level' = level
            /\ resp' = Response("updateUserSubscription", 404)
       ELSE \E i \in LatestSuccess(userId) :
            IF userId \in Registered
            THEN /\ level' = [level EXCEPT ![userId] = subs[i].planType]
                 /\ resp' = Response("updateUserSubscription", 200)
            ELSE /\ level' = level
                 /\ resp' = Response("updateUserSubscription", 404)

\* PUT /api/subscriptions/users/:userId/subscription-level
updateUserSubscriptionLevel(userId, subscriptionLevel) ==
    /\ UNCHANGED <<subs, paidLog>>
    /\ IF subscriptionLevel \notin validLevels
       THEN /\ level' = level
            /\ resp' = Response("updateUserSubscriptionLevel", 400)
       ELSE IF userId \notin Registered
       THEN /\ level' = level
            /\ resp' = Response("updateUserSubscriptionLevel", 404)
       ELSE /\ level' = [level EXCEPT ![userId] = subscriptionLevel]
            /\ resp' = Response("updateUserSubscriptionLevel", 200)

---------------------------------------------------------------------------
(* Handlers that only read *)

\* GET /api/payment/subscription
getUserSubscription(userId) ==
    /\ UNCHANGED <<subs, level, paidLog>>
    /\ resp' = Response("getUserSubscription", IF userId = NoUser THEN 401 ELSE 200)

\* a lookup by the order id alone
FindAnyOrder(userId, orderId) == FindOneByOrderId(orderId)

\* Subscription.findOne({ orderId, userId }): the first matching document in
\* natural order, 0 if there is none
FindOwnOrder(userId, orderId) ==
    IF \E i \in Ids : subs[i].orderId = orderId /\ subs[i].userId = userId
    THEN CHOOSE i \in Ids :
            /\ subs[i].orderId = orderId /\ subs[i].userId = userId
            /\ \A j \in Ids : (subs[j].orderId = orderId /\ subs[j].userId = userId)
                                 => i <= j
    ELSE 0

\* res.status(200).json({ status, planType, amount, createdAt })
StatusResponse(subscription) ==
    [op |-> "checkPaymentStatus", code |-> 200,
     status |-> subscription.status, planType |-> subscription.planType,
     amount |-> subscription.amount, createdAt |-> subscription.createdAt]

\* GET /api/payment/status/:orderId
checkPaymentStatus(userId, orderId) ==
    /\ UNCHANGED <<subs, level, paidLog>>
    /\ resp' = IF userId = NoUser THEN Response("checkPaymentStatus", 401)
               ELSE IF FindOwnOrder(userId, orderId) = 0
               THEN Response("checkPaymentStatus", 404)
               ELSE StatusResponse(subs[FindOwnOrder(userId, orderId)])

\* GET /api/payment/subscription-status
getUserSubscriptionStatus(userId) ==
    /\ UNCHANGED <<subs, level, paidLog>>
    /\ resp' = Response("getUserSubscriptionStatus",
                        IF userId = NoUser THEN 401
                        ELSE IF userId \notin Registered THEN 404
                        ELSE 200)

\* GET /api/subscriptions/all
getAllSubscriptions ==
    /\ UNCHANGED <<subs, level, paidLog>>
    /\ resp' = Response("getAllSubscriptions", 200)

\* GET /api/subscriptions/stats
getSubscriptionStats ==
    /\ UNCHANGED <<subs, level, paidLog>>
    /\ resp' = Response("getSubscriptionStats", 200)

\* GET /api/subscriptions/users
getAllUsersWithSubscriptions ==
    /\ UNCHANGED <<subs, level, paidLog>>
    /\ resp' = Response("getAllUsersWithSubscriptions", 200)

---------------------------------------------------------------------------
(* The inputs of the webhook.  PayHere signs the notifications of an order *)
(* with the amount charged, the currency LKR and one of its status codes;  *)
(* a sender without the secret can only replay one of those signatures,    *)
(* with fields of its own choice.                                          *)

\* the order ids on record, and one that was never issued
OrderIdInputs == {subs[i].orderId : i \in Ids} \cup {"MC-0-0"}
ChargedAmount == ToFixed2(1500)
PayhereAmountInputs == {ToFixed2(1500), ToFixed2(2000)}
CurrencyInputs == {"LKR", "LKR-"}
ProviderCodes == {"2", "0", "-1", "-2", "-3"}
\* a missing status_code is undefined, which concatenates as "undefined"
StatusCodeInputs == ProviderCodes \cup {"1", "3", NoValue}
PaymentIdInputs == {"P1"}
ProviderSigs(order_id) ==
    {CalculatedMd5sig(MerchantId, order_id, ChargedAmount, Currency, c) : c \in ProviderCodes}
\* any signature PayHere issued for the order, or one made up
SigInputs(order_id) == ProviderSigs(order_id) \cup {"BADSIG"}
\* the signature PayHere issued for this very string of fields, or one made up
OwnSigInputs(order_id, payhere_amount, payhere_currency, status_code) ==
    ({CalculatedMd5sig(MerchantId, order_id, payhere_amount, payhere_currency, status_code)}
        \cap ProviderSigs(order_id)) \cup {"BADSIG"}

---------------------------------------------------------------------------
(* Requests *)

\* the clock does not tick while the handler builds the record
InitializeRequest ==
    \E userId \in AuthUsers \cup {NoUser}, planType \in PlanInputs,
       amount \in AmountInputs, t \in 1..MaxTime, r \in RandInputs :
       initializePayment(userId, planType, amount, t, r, t, t)

\* initiations of one plan by callers with a token
PlainInitializeRequest ==
    \E userId \in AuthUsers, t \in 1..MaxTime, r \in RandInputs :
       initializePayment(userId, "School Pro", [kind |-> "number", v |-> 1500], t, r, t, t)

\* the clock may tick between any two of the handler's readings
TimedInitializeRequest ==
    \E userId \in AuthUsers \cup {NoUser}, planType \in PlanInputs,
       amount \in AmountInputs, t \in 1..MaxTime, r \in RandInputs,
       s \in 1..MaxTime, e \in 1..MaxTime :
       initializePayment(userId, planType, amount, t, r, s, e)

\* notifications signed by a holder of the merchant secret, whatever the code
SignedNotifyRequest ==
    \E order_id \in OrderIdInputs, payment_id \in PaymentIdInputs,
       status_code \in StatusCodeInputs :
       handlePaymentNotification(
          MerchantId, order_id, payment_id, ChargedAmount, Currency, status_code,
          CalculatedMd5sig(MerchantId, order_id, ChargedAmount, Currency, status_code))

\* notifications as PayHere sends them, and forged ones
NotifyRequest ==
    \E order_id \in OrderIdInputs, payment_id \in PaymentIdInputs,
       payhere_currency \in CurrencyInputs, status_code \in StatusCodeInputs :
       \E md5sig \in OwnSigInputs(order_id, ChargedAmount, payhere_currency, status_code) :
          handlePaymentNotification(MerchantId, order_id, payment_id, ChargedAmount,
                                    payhere_currency, status_code, md5sig)

\* notifications with any of the order's signatures on any fields
TamperedNotifyRequest ==
    \E order_id \in OrderIdInputs, payment_id \in PaymentIdInputs,
       payhere_amount \in PayhereAmountInputs, payhere_currency \in CurrencyInputs,
       status_code \in StatusCodeInputs :
       \E md5sig \in SigInputs(order_id) :
          handlePaymentNotification(MerchantId, order_id, payment_id, payhere_amount,
                                    payhere_currency, status_code, md5sig)

ApproveRequest ==
    \E subscriptionId \in 0..(MaxSubs + 1) : approveSubscription(subscriptionId)

RejectRequest ==
    \E subscriptionId \in 0..(MaxSubs + 1), reason \in ReasonInputs :
       rejectSubscription(subscriptionId, reason)

UpdateSubscriptionRequest ==
    \E userId \in AuthUsers \cup {NoUser} : updateUserSubscription(userId)

UpdateLevelRequest ==
    \E userId \in Registered \cup AuthUsers, subscriptionLevel \in LevelInputs :
       updateUserSubscriptionLevel(userId, subscriptionLevel)

ReadRequest ==
    \/ \E userId \in AuthUsers \cup {NoUser} : getUserSubscription(userId)
    \/ \E userId \in AuthUsers \cup {NoUser}, orderId \in OrderIdInputs :
          checkPaymentStatus(userId, orderId)
    \/ \E userId \in AuthUsers \cup {NoUser} : getUserSubscriptionStatus(userId)
    \/ getAllSubscriptions
    \/ getSubscriptionStats
    \/ getAllUsersWithSubscriptions

---------------------------------------------------------------------------
(* Spec: every handler of the payment and subscription routes *)

Next ==
    \/ Len(subs) < MaxSubs /\ InitializeRequest /\ UNCHANGED <<feedbacks, procs>>
    \/ NotifyRequest /\ UNCHANGED <<feedbacks, procs>>
    \/ ApproveRequest /\ UNCHANGED <<feedbacks, procs>>
    \/ RejectRequest /\ UNCHANGED <<feedbacks, procs>>
    \/ UpdateSubscriptionRequest /\ UNCHANGED <<feedbacks, procs>>
    \/ UpdateLevelRequest /\ UNCHANGED <<feedbacks, procs>>
    \/ ReadRequest /\ UNCHANGED <<feedbacks, procs>>

Spec == Init /\ [][Next]_vars

(* SpecWebhook: initiation and the webhook, with tampered notifications *)

NextWebhook ==
    \/ Len(subs) < MaxOrders /\ PlainInitializeRequest /\ UNCHANGED <<feedbacks, procs>>
    \/ TamperedNotifyRequest /\ UNCHANGED <<feedbacks, procs>>

SpecWebhook == Init /\ [][NextWebhook]_vars

(* SpecSigned: initiation and the webhook, with notifications that a holder *)
(* of the merchant secret signed                                            *)

NextSigned ==
    \/ Len(subs) < MaxOrders /\ PlainInitializeRequest /\ UNCHANGED <<feedbacks, procs>>
    \/ SignedNotifyRequest /\ UNCHANGED <<feedbacks, procs>>

SpecSigned == Init /\ [][NextSigned]_vars

(* SpecInitiate: payment initiation alone, with every reading of the clock *)

NextInitiate ==
    Len(subs) < MaxOrders /\ TimedInitializeRequest /\ UNCHANGED <<feedbacks, procs>>

SpecInitiate == Init /\ [][NextInitiate]_vars

---------------------------------------------------------------------------
(* The feedback handlers.  Confidence is in hundredths; every feedback is   *)
(* younger than a week, and the listings are asked without a date range.    *)

FallbackConfidence == 60       \* confidence: 0.6 of the rule-based fallback
DefaultConfidence == 60        \* sentimentResult.confidence || 0.6
HighConfidence == 80           \* $gte: 0.8
MediumConfidence == 60         \* $gte: 0.6
sentimentEnum == {"positive", "negative"}

\* req.user of the callers: "u2" is the admin, "u3" has no User document
RoleOf(userId) == IF userId = "u2" THEN "admin" ELSE "user"
Callers == Registered \cup AuthUsers

\* req.body.feedback: missing, empty, blank, and two texts
FeedbackInputs == {NoValue, "", "   ", " I love it ", "too slow"}

\* feedback.trim()
Trim(feedback) ==
    CASE feedback = "   " -> ""
      [] feedback = " I love it " -> "I love it"
      [] OTHER -> feedback

\* lines 70-74: the text holds good, great, excellent, love or amazing
HasPositiveWord(feedback) == feedback = " I love it "

\* what the classifier process does: a prediction, or one of its failures
ClassifierOutcomes ==
    {[kind |-> "result", sentiment |-> "positive", confidence |-> 90],
     [kind |-> "result", sentiment |-> "negative", confidence |-> 0],
     [kind |-> "spawn-error", sentiment |-> NoValue, confidence |-> 0],
     [kind |-> "exit-nonzero", sentiment |-> NoValue, confidence |-> 0],
     [kind |-> "unparsable", sentiment |-> NoValue, confidence |-> 0]}

\* runSentimentAnalysis: resolves with the prediction, rejects on a failure
Rejects(outcome) == outcome.kind # "result"

\* a fallback with a third label for a text without any of the words
FallbackNeutral(feedback) ==
    [sentiment |-> IF HasPositiveWord(feedback) THEN "positive" ELSE "neutral",
     confidence |-> FallbackConfidence]

\* lines 69-76: the rule-based fallback
Fallback(feedback) ==
    [sentiment |-> IF HasPositiveWord(feedback) THEN "positive" ELSE "negative",
     confidence |-> FallbackConfidence]

\* lines 64-77
SentimentResult(feedback, outcome) ==
    IF Rejects(outcome) THEN Fallback(feedback)
    ELSE [sentiment |-> outcome.sentiment, confidence |-> outcome.confidence]

\* lines 80-85, with the defaults of the schema
NewFeedback(userId, feedback, sentimentResult) ==
    [user |-> userId, feedback |-> Trim(feedback),
     sentiment |-> sentimentResult.sentiment,
     confidence |-> IF sentimentResult.confidence # 0 THEN sentimentResult.confidence
                    ELSE DefaultConfidence,
     isActive |-> TRUE, reviewed |-> FALSE, reviewedBy |-> NoValue,
     addressed |-> FALSE, addressedBy |-> NoValue, response |-> NoValue]

\* newFeedback.save() validates the enum and the range of the confidence
FeedbackValidates(doc) ==
    /\ doc.sentiment \in sentimentEnum
    /\ doc.confidence >= 0 /\ doc.confidence <= 100

FeedbackIds == 1..Len(feedbacks)

\* POST /api/feedback/submit
submitFeedback(userId, feedback, outcome) ==
    LET doc == NewFeedback(userId, feedback, SentimentResult(feedback, outcome))
    IN  IF feedback \in {NoValue, ""} \/ Trim(feedback) = ""
        THEN /\ feedbacks' = feedbacks
             /\ resp' = Response("submitFeedback", 400)
        ELSE IF userId \notin Registered
        THEN /\ feedbacks' = feedbacks
             /\ resp' = Response("submitFeedback", 404)
        ELSE IF ~FeedbackValidates(doc)
        THEN /\ feedbacks' = feedbacks
             /\ resp' = Response("submitFeedback", 500)
        ELSE /\ feedbacks' = Append(feedbacks, doc)
             /\ resp' = Response("submitFeedback", 201)

\* a handler that lets every caller with a token delete
MayDeleteAny(userId, userRole, owner) == TRUE

\* line 426: only the admin or the owner of the feedback
MayDelete(userId, userRole, owner) == userRole = "admin" \/ owner = userId

\* DELETE /api/feedback/:feedbackId; feedbackId 0 is no ObjectId
deleteFeedback(userId, userRole, feedbackId) ==
    IF feedbackId = 0
    THEN /\ feedbacks' = feedbacks
         /\ resp' = Response("deleteFeedback", 500)
    ELSE IF feedbackId \notin FeedbackIds
    THEN /\ feedbacks' = feedbacks
         /\ resp' = Response("deleteFeedback", 404)
    ELSE IF ~MayDelete(userId, userRole, feedbacks[feedbackId].user)
    THEN /\ feedbacks' = feedbacks
         /\ resp' = Response("deleteFeedback", 403)
    ELSE /\ feedbacks' = [feedbacks EXCEPT ![feedbackId].isActive = FALSE]
         /\ resp' = Response("deleteFeedback", 200)

BulkActions == {NoValue, "delete", "mark_reviewed", "mark_addressed", "restore"}
ResponseInputs == {NoValue}                 \* metadata.response, here missing

\* lines 464-484: the $set of the action
BulkUpdated(doc, action, userId, response) ==
    CASE action = "delete" -> [doc EXCEPT !.isActive = FALSE]
      [] action = "mark_reviewed" -> [doc EXCEPT !.reviewed = TRUE, !.reviewedBy = userId]
      [] action = "mark_addressed" ->
            [doc EXCEPT !.addressed = TRUE, !.addressedBy = userId,
                        !.response = IF response = NoValue THEN "" ELSE response]
      [] OTHER -> doc

\* an update that takes every listed feedback, deleted or not
BulkMatchesListed(doc, feedbackIds, id) == id \in feedbackIds

\* line 487: { _id: { $in: feedbackIds }, isActive: true }
BulkMatches(doc, feedbackIds, id) == id \in feedbackIds /\ doc.isActive

\* POST /api/feedback/bulk
bulkUpdateFeedback(userId, userRole, feedbackIds, action, response) ==
    IF feedbackIds = {} \/ action = NoValue
    THEN /\ feedbacks' = feedbacks
         /\ resp' = Response("bulkUpdateFeedback", 400)
    ELSE IF userRole # "admin"
    THEN /\ feedbacks' = feedbacks
         /\ resp' = Response("bulkUpdateFeedback", 403)
    ELSE IF action \notin {"delete", "mark_reviewed", "mark_addressed"}
    THEN /\ feedbacks' = feedbacks
         /\ resp' = Response("bulkUpdateFeedback", 400)
    ELSE /\ feedbacks' = [id \in FeedbackIds |->
                            IF BulkMatches(feedbacks[id], feedbackIds, id)
                            THEN BulkUpdated(feedbacks[id], action, userId, response)
                            ELSE feedbacks[id]]
         /\ resp' = Response("bulkUpdateFeedback", 200)

---------------------------------------------------------------------------
(* The feedback listings.  A response names the documents by their _id. *)

DefaultPage == 1               \* parseInt(req.query.page) || 1
DefaultLimitAll == 10          \* parseInt(req.query.limit) || 10
DefaultLimitUser == 5          \* parseInt(req.query.limit) || 5

\* req.query.page and req.query.limit: missing, or a string
PageInputs == {NoValue, "0", "-1", "2", "abc"}
LimitInputs == {NoValue, "0", "-2", "1", "2", "abc"}

NaN == [nan |-> TRUE, n |-> 0]
Num(n) == [nan |-> FALSE, n |-> n]

\* parseInt(q)
ParseInt(q) ==
    CASE q = "0" -> Num(0)
      [] q = "1" -> Num(1)
      [] q = "2" -> Num(2)
      [] q = "-1" -> Num(-1)
      [] q = "-2" -> Num(-2)
      [] OTHER -> NaN

\* parseInt(q) || d: NaN and 0 are falsy
OrDefault(v, d) == IF v.nan \/ v.n = 0 THEN d ELSE v.n

\* Math.ceil(total / limit), limit not 0
CeilDiv(total, limit) ==
    IF limit > 0 THEN -((-total) \div limit) ELSE -(total \div (-limit))

FilterInputs == {NoValue, "positive"}                   \* req.query.filter
ConfidenceInputs == {NoValue, "medium"}                 \* req.query.confidence
SortOrderInputs == {NoValue, "asc"}                     \* req.query.sortOrder

\* lines 127-139
InConfidenceBucket(confidence, confidenceFilter) ==
    CASE confidenceFilter = "high" -> confidence >= HighConfidence
      [] confidenceFilter = "medium" ->
            confidence >= MediumConfidence /\ confidence < HighConfidence
      [] confidenceFilter = "low" -> confidence < MediumConfidence
      [] OTHER -> TRUE

\* a query that lists the deleted feedback as well
IsListedAlways(doc) == TRUE

\* { isActive: true }, the condition every query of the controller carries
IsListed(doc) == doc.isActive

\* lines 119-139: the documents the query of getAllFeedback matches
MatchAll(filter, confidenceFilter) ==
    {id \in FeedbackIds :
        /\ IsListed(feedbacks[id])
        /\ filter # NoValue => feedbacks[id].sentiment = filter
        /\ InConfidenceBucket(feedbacks[id].confidence, confidenceFilter)}

\* { user: userId, isActive: true }
MatchUser(userId) ==
    {id \in FeedbackIds : IsListed(feedbacks[id]) /\ feedbacks[id].user = userId}

\* .sort({ createdAt: 1 }) and .sort({ createdAt: -1 }): the order of insertion
Ascending(S) ==
    [k \in 1..Cardinality(S) |-> CHOOSE x \in S : Cardinality({y \in S : y < x}) = k - 1]
Descending(S) ==
    [k \in 1..Cardinality(S) |-> CHOOSE x \in S : Cardinality({y \in S : y > x}) = k - 1]

\* .skip(n), n not negative
Skip(items, n) == SubSeq(items, n + 1, Len(items))

\* .limit(n): a negative limit is the limit -n, in a single batch
Limit(items, n) ==
    LET m == IF n < 0 THEN -n ELSE n
    IN  SubSeq(items, 1, IF m < Len(items) THEN m ELSE Len(items))

Pagination(page, totalPages, total, limit) ==
    [currentPage |-> page, totalPages |-> totalPages, totalItems |-> total,
     itemsPerPage |-> limit]

ListResponse(op, items, pagination) ==
    [op |-> op, code |-> 200, items |-> items, pagination |-> pagination]

\* the find and the count of a listing; a negative skip is refused by the store
Listing(op, matched, sorted, page, limit) ==
    LET skip == (page - 1) * limit
    IN  IF skip < 0 THEN Response(op, 500)
        ELSE ListResponse(op, Limit(Skip(sorted, skip), limit),
                          Pagination(page, CeilDiv(Cardinality(matched), limit),
                                     Cardinality(matched), limit))

\* GET /api/feedback/all
getAllFeedback(page, limit, filter, confidenceFilter, sortOrder) ==
    LET matched == MatchAll(filter, confidenceFilter)
    IN  /\ feedbacks' = feedbacks
        /\ resp' = Listing("getAllFeedback", matched,
                           IF sortOrder = "asc" THEN Ascending(matched)
                           ELSE Descending(matched),
                           OrDefault(ParseInt(page), DefaultPage),
                           OrDefault(ParseInt(limit), DefaultLimitAll))

\* GET /api/feedback/user
getUserFeedback(userId, page, limit) ==
    /\ feedbacks' = feedbacks
    /\ resp' = Listing("getUserFeedback", MatchUser(userId), Descending(MatchUser(userId)),
                       OrDefault(ParseInt(page), DefaultPage),
                       OrDefault(ParseInt(limit), DefaultLimitUser))

CountOf(S) == Cardinality(S)

\* GET /api/feedback/stats and /public-stats: the counts of the response
getFeedbackStats ==
    LET positive == CountOf(MatchAll("positive", NoValue))
        negative == CountOf(MatchAll("negative", NoValue))
        total == CountOf(MatchAll(NoValue, NoValue))
    IN  /\ feedbacks' = feedbacks
        /\ resp' = [op |-> "getFeedbackStats", code |-> 200,
                    overall |-> [positive |-> positive, negative |-> negative,
                                 total |-> total],
                    recent |-> [positive |-> positive, negative |-> negative,
                                total |-> positive + negative],
                    confidence |-> [high |-> CountOf(MatchAll(NoValue, "high")),
                                    medium |-> CountOf(MatchAll(NoValue, "medium")),
                                    low |-> CountOf(MatchAll(NoValue, "low"))]]

\* GET /api/feedback/trends: the one day of the model
getSentimentTrends ==
    LET positive == CountOf(MatchAll("positive", NoValue))
        negative == CountOf(MatchAll("negative", NoValue))
    IN  /\ feedbacks' = feedbacks
        /\ resp' = [op |-> "getSentimentTrends", code |-> 200,
                    trends |-> IF positive + negative = 0 THEN << >>
                               ELSE <<[positive |-> positive, negative |-> negative,
                                       total |-> positive + negative]>>]

\* GET /api/feedback/export
exportFeedback(userRole, filter) ==
    /\ feedbacks' = feedbacks
    /\ resp' = IF userRole # "admin" THEN Response("exportFeedback", 403)
               ELSE [op |-> "exportFeedback", code |-> 200,
                     items |-> Descending(MatchAll(filter, NoValue)),
                     totalRecords |-> Cardinality(MatchAll(filter, NoValue))]

---------------------------------------------------------------------------
(* SpecFeedback: the feedback routes, the listings with their defaults *)

SubmitRequest ==
    \E userId \in Callers, feedback \in FeedbackInputs, outcome \in ClassifierOutcomes :
       submitFeedback(userId, feedback, outcome)

DeleteRequest ==
    \E userId \in Callers, feedbackId \in 0..(MaxFeedback + 1) :
       deleteFeedback(userId, RoleOf(userId), feedbackId)

BulkRequest ==
    \E userId \in Callers, feedbackIds \in SUBSET (1..MaxFeedback),
       action \in BulkActions, response \in ResponseInputs :
       bulkUpdateFeedback(userId, RoleOf(userId), feedbackIds, action, response)

FeedbackReadRequest ==
    \/ \E filter \in FilterInputs : getAllFeedback(NoValue, NoValue, filter, NoValue, NoValue)
    \/ \E userId \in Callers : getUserFeedback(userId, NoValue, NoValue)
    \/ getFeedbackStats
    \/ getSentimentTrends
    \/ \E userId \in Callers, filter \in FilterInputs :
          exportFeedback(RoleOf(userId), filter)

NextFeedback ==
    \/ Len(feedbacks) < MaxFeedback /\ SubmitRequest
                                     /\ UNCHANGED <<subs, level, paidLog, procs>>
    \/ DeleteRequest /\ UNCHANGED <<subs, level, paidLog, procs>>
    \/ BulkRequest /\ UNCHANGED <<subs, level, paidLog, procs>>
    \/ FeedbackReadRequest /\ UNCHANGED <<subs, level, paidLog, procs>>

SpecFeedback == Init /\ [][NextFeedback]_vars

(* SpecPages: the listings with every page and limit *)

\* submissions while the classifier is down
FallbackSubmitRequest ==
    \E userId \in Registered, feedback \in {" I love it ", "too slow"} :
       submitFeedback(userId, feedback,
                      [kind |-> "spawn-error", sentiment |-> NoValue, confidence |-> 0])

PagedReadRequest ==
    \/ \E page \in PageInputs, limit \in LimitInputs, filter \in FilterInputs,
          confidenceFilter \in ConfidenceInputs, sortOrder \in SortOrderInputs :
          getAllFeedback(page, limit, filter, confidenceFilter, sortOrder)
    \/ \E userId \in Callers, page \in PageInputs, limit \in LimitInputs :
          getUserFeedback(userId, page, limit)

NextPages ==
    \/ Len(feedbacks) < MaxListed /\ FallbackSubmitRequest
                                     /\ UNCHANGED <<subs, level, paidLog, procs>>
    \/ PagedReadRequest /\ UNCHANGED <<subs, level, paidLog, procs>>

SpecPages == Init /\ [][NextPages]_vars

---------------------------------------------------------------------------
(* SpecSteps: approveSubscription and rejectSubscription one database call  *)
(* at a time.  A request is a process; between two of its calls any other   *)
(* request may run, and the process may die.                                *)

Request(op, subscriptionId, reason, pc, code) ==
    [op |-> op, sid |-> subscriptionId, reason |-> reason, pc |-> pc, code |-> code,
     failed |-> FALSE]

\* the response of the guard, 200 standing for "go on"
GuardCode(subscriptionId) ==
    IF subscriptionId \notin Ids THEN 404
    ELSE IF ~IsPendingOrPaid(subs[subscriptionId].status) THEN 400
    ELSE 200

\* part_002 lines 113-122: findById and the status guard
BeginApprove(p, subscriptionId) ==
    LET code == GuardCode(subscriptionId)
    IN  /\ procs[p].pc = "idle"
        /\ procs' = [procs EXCEPT ![p] =
                        IF code = 200
                        THEN Request("approveSubscription", subscriptionId, "", "save", 0)
                        ELSE Request("approveSubscription", subscriptionId, "", "done", code)]
        /\ resp' = IF code = 200 THEN resp ELSE Response("approveSubscription", code)
        /\ UNCHANGED <<subs, level, paidLog, feedbacks>>

\* a save that writes the subscription and the user in one transaction
LevelInOneTransaction(lv, userId, planType) == LevelAfterApproval(lv, userId, planType)

\* lines 124-126: subscription.save() writes the subscription alone
LevelAfterSubscriptionSave(lv, userId, planType) == lv

ApproveSave(p) ==
    /\ procs[p].op = "approveSubscription" /\ procs[p].pc = "save" /\ ~procs[p].failed
    /\ subs' = [subs EXCEPT ![procs[p].sid].status = "success"]
    /\ level' = LevelAfterSubscriptionSave(level, subs[procs[p].sid].userId,
                                           subs[procs[p].sid].planType)
    /\ procs' = [procs EXCEPT ![p].pc = "user"]
    /\ UNCHANGED <<paidLog, resp, feedbacks>>

\* lines 128-133: User.findById and user.save()
ApproveUser(p) ==
    /\ procs[p].op = "approveSubscription" /\ procs[p].pc = "user" /\ ~procs[p].failed
    /\ level' = LevelAfterApproval(level, subs[procs[p].sid].userId,
                                   subs[procs[p].sid].planType)
    /\ procs' = [procs EXCEPT ![p].pc = "respond"]
    /\ UNCHANGED <<subs, paidLog, resp, feedbacks>>

\* lines 135-142 and 173-180: the last findById and the response
Respond(p) ==
    /\ procs[p].pc = "respond" /\ ~procs[p].failed
    /\ procs' = [procs EXCEPT ![p].pc = "done", ![p].code = 200]
    /\ resp' = Response(procs[p].op, 200)
    /\ UNCHANGED <<subs, level, paidLog, feedbacks>>

\* lines 155-164
BeginReject(p, subscriptionId, reason) ==
    LET code == GuardCode(subscriptionId)
    IN  /\ procs[p].pc = "idle"
        /\ procs' = [procs EXCEPT ![p] =
                        IF code = 200
                        THEN Request("rejectSubscription", subscriptionId, reason, "save", 0)
                        ELSE Request("rejectSubscription", subscriptionId, reason, "done",
                                     code)]
        /\ resp' = IF code = 200 THEN resp ELSE Response("rejectSubscription", code)
        /\ UNCHANGED <<subs, level, paidLog, feedbacks>>

\* lines 166-171
RejectSave(p) ==
    /\ procs[p].op = "rejectSubscription" /\ procs[p].pc = "save" /\ ~procs[p].failed
    /\ subs' = [subs EXCEPT ![procs[p].sid] = Rejected(@, procs[p].reason)]
    /\ procs' = [procs EXCEPT ![p].pc = "respond"]
    /\ UNCHANGED <<level, paidLog, resp, feedbacks>>

\* the process dies between two database calls of the request
Fail(p) ==
    /\ procs[p].pc \in {"save", "user", "respond"} /\ ~procs[p].failed
    /\ procs' = [procs EXCEPT ![p].failed = TRUE]
    /\ UNCHANGED <<subs, level, paidLog, resp, feedbacks>>

NextSteps ==
    \/ Len(subs) < MaxSubs /\ PlainInitializeRequest /\ UNCHANGED <<feedbacks, procs>>
    \/ \E p \in Procs, subscriptionId \in 1..(MaxSubs + 1) : BeginApprove(p, subscriptionId)
    \/ \E p \in Procs : ApproveSave(p)
    \/ \E p \in Procs : ApproveUser(p)
    \/ \E p \in Procs, subscriptionId \in 1..(MaxSubs + 1), reason \in ReasonInputs :
          BeginReject(p, subscriptionId, reason)
    \/ \E p \in Procs : RejectSave(p)
    \/ \E p \in Procs : Respond(p)
    \/ \E p \in Procs : Fail(p)

SpecSteps == Init /\ [][NextSteps]_vars

---------------------------------------------------------------------------
(* SpecStats: getFeedbackStats one query at a time.  Promise.all sends the  *)
(* three counts together; the store answers each at a moment of its own, in *)
(* any order, and feedback is submitted and deleted in between.             *)

CountNames == {"positive", "negative", "total"}
NoCounts == [c \in CountNames |-> 0]

\* a getFeedbackStats request: the counts still to come and those received
StatsRequest(pc, todo, counts, recent) ==
    [op |-> "getFeedbackStats", pc |-> pc, todo |-> todo, counts |-> counts,
     recent |-> recent, code |-> 0, failed |-> FALSE]

\* part_001 lines 206-210: the three countDocuments are sent
BeginStats(p) ==
    /\ procs[p].pc = "idle"
    /\ procs' = [procs EXCEPT ![p] = StatsRequest("counts", CountNames, NoCounts, NoCounts)]
    /\ UNCHANGED <<subs, level, paidLog, resp, feedbacks>>

\* lines 207-209: the documents one of the counts matches
CountQuery(c) == MatchAll(IF c = "total" THEN NoValue ELSE c, NoValue)

\* the store answers one of the counts
CountStep(p, c) ==
    /\ procs[p].op = "getFeedbackStats" /\ procs[p].pc = "counts"
    /\ c \in procs[p].todo
    /\ procs' = [procs EXCEPT ![p].counts[c] = CountOf(CountQuery(c)),
                              ![p].todo = @ \ {c},
                              ![p].pc = IF procs[p].todo = {c} THEN "recent" ELSE "counts"]
    /\ UNCHANGED <<subs, level, paidLog, resp, feedbacks>>

\* lines 216-236: the aggregate over the last seven days
RecentStep(p) ==
    /\ procs[p].op = "getFeedbackStats" /\ procs[p].pc = "recent"
    /\ procs' = [procs EXCEPT
                    ![p].recent = [positive |-> CountOf(CountQuery("positive")),
                                   negative |-> CountOf(CountQuery("negative")),
                                   total |-> CountOf(CountQuery("positive"))
                                             + CountOf(CountQuery("negative"))],
                    ![p].pc = "confidence"]
    /\ UNCHANGED <<subs, level, paidLog, resp, feedbacks>>

\* lines 238-277: the aggregate over the confidence, and the response
ConfidenceStep(p) ==
    /\ procs[p].op = "getFeedbackStats" /\ procs[p].pc = "confidence"
    /\ procs' = [procs EXCEPT ![p] = Idle]
    /\ resp' = [op |-> "getFeedbackStats", code |-> 200,
                overall |-> procs[p].counts,
                recent |-> procs[p].recent,
                confidence |-> [high |-> CountOf(MatchAll(NoValue, "high")),
                                medium |-> CountOf(MatchAll(NoValue, "medium")),
                                low |-> CountOf(MatchAll(NoValue, "low"))]]
    /\ UNCHANGED <<subs, level, paidLog, feedbacks>>

\* one request for the statistics in flight; readers do not affect each other
Readers == {1}

NextStats ==
    \/ Len(feedbacks) < MaxFeedback /\ FallbackSubmitRequest
                                     /\ UNCHANGED <<subs, level, paidLog, procs>>
    \/ DeleteRequest /\ UNCHANGED <<subs, level, paidLog, procs>>
    \/ \E p \in Readers : BeginStats(p)
    \/ \E p \in Readers, c \in CountNames : CountStep(p, c)
    \/ \E p \in Readers : RecentStep(p)
    \/ \E p \in Readers : ConfidenceStep(p)

SpecStats == Init /\ [][NextStats]_vars

---------------------------------------------------------------------------
(* SpecOwners: two callers with subscriptions of their own, of either plan, *)
(* approved by the admin; each asks for the status of any order on record   *)
(* and forces the update of its level.                                      *)

\* initiations of either plan by callers with a token
OwnerInitializeRequest ==
    \E userId \in AuthUsers, planType \in {"School Pro", "O/L Pro"},
       t \in 1..MaxTime, r \in RandInputs :
       initializePayment(userId, planType, [kind |-> "number", v |-> 1500], t, r, t, t)

CheckStatusRequest ==
    \E userId \in AuthUsers \cup {NoUser}, orderId \in OrderIdInputs :
       checkPaymentStatus(userId, orderId)

NextOwners ==
    \/ Len(subs) < MaxOrders /\ OwnerInitializeRequest /\ UNCHANGED <<feedbacks, procs>>
    \/ ApproveRequest /\ UNCHANGED <<feedbacks, procs>>
    \/ CheckStatusRequest /\ UNCHANGED <<feedbacks, procs>>
    \/ UpdateSubscriptionRequest /\ UNCHANGED <<feedbacks, procs>>

SpecOwners == Init /\ [][NextOwners]_vars

---------------------------------------------------------------------------
(* Claims *)

TerminalStatuses == {"success", "failed", "canceled", "chargedback"}
DefinedMoves ==
    {<<"pending", "paid">>, <<"paid", "success">>, <<"pending", "success">>}
    \cup ({"pending", "paid"} \X {"failed", "canceled", "chargedback"})

\* C1: the status of every subscription only moves along pending -> paid ->
\* success or pending/paid -> failed/canceled/chargedback, and a status of
\* success, failed, canceled or chargedback is never changed again.
C1_StatusMonotonic ==
    [][\A i \in Ids :
          \/ subs'[i].status = subs[i].status
          \/ <<subs[i].status, subs'[i].status>> \in DefinedMoves]_vars

\* the fields of a notification differ in amount, currency or status code from
\* the notification PayHere signed for the order with status code c0
DiffersFromSigned(payhere_amount, payhere_currency, status_code, c0) ==
    <<payhere_amount, payhere_currency, status_code>> # <<ChargedAmount, Currency, c0>>

\* C2: a notification that carries the signature PayHere made for an order on
\* record but differs from the signed one in amount, currency or status code is
\* answered 400 and changes no subscription.
C2_TamperedRejected ==
    [][resp'.op = "handlePaymentNotification" =>
          \/ resp'.code = 400 /\ subs' = subs
          \/ \A order_id \in {subs[i].orderId : i \in Ids},
                payhere_amount \in PayhereAmountInputs,
                payhere_currency \in CurrencyInputs, status_code \in StatusCodeInputs,
                c0 \in ProviderCodes, payment_id \in PaymentIdInputs :
                ~ /\ DiffersFromSigned(payhere_amount, payhere_currency, status_code, c0)
                  /\ handlePaymentNotification(
                        MerchantId, order_id, payment_id, payhere_amount,
                        payhere_currency, status_code,
                        CalculatedMd5sig(MerchantId, order_id, ChargedAmount, Currency, c0))
      ]_vars

\* C3: a notification with a matching signature and status code 2 for an order
\* on record sets that subscription's status to 'paid', and no notification
\* leaves a subscription it wrote with the status 'success'.
C3_SuccessCodeSetsPaid ==
    [][resp'.op = "handlePaymentNotification" =>
          /\ \A i \in Ids : subs'[i] # subs[i] => subs'[i].status # "success"
          /\ resp'.code = 200 =>
                \A order_id \in OrderIdInputs, payhere_currency \in CurrencyInputs,
                   payment_id \in PaymentIdInputs :
                   LET md5sig == CalculatedMd5sig(MerchantId, order_id, ChargedAmount,
                                                  payhere_currency, "2")
                   IN  handlePaymentNotification(MerchantId, order_id, payment_id,
                                                 ChargedAmount, payhere_currency, "2", md5sig)
                       => subs'[FindOneByOrderId(order_id)].status = "paid"
      ]_vars

C3_Witness ==
    /\ resp = Response("handlePaymentNotification", 200)
    /\ \E i \in Ids : subs[i].status = "paid" /\ subs[i].userId \in paidLog

\* C4: approveSubscription answers 200 only for a subscription whose status was
\* 'pending' or 'paid'; on a status of success, failed, canceled or chargedback
\* it answers 400, on an unknown id 404, and in both cases neither a
\* subscription nor a subscription level changes.
C4_ApproveGuard ==
    [][resp'.op = "approveSubscription" =>
          /\ resp'.code = 200 =>
                \E i \in Ids : /\ subs[i].status \in {"pending", "paid"}
                               /\ subs'[i].status = "success"
                               /\ \A j \in Ids \ {i} : subs'[j] = subs[j]
          /\ resp'.code \in {400, 404} => subs' = subs /\ level' = level
          /\ \A subscriptionId \in 1..(MaxSubs + 1) :
                approveSubscription(subscriptionId) =>
                   /\ subscriptionId \notin Ids => resp'.code = 404
                   /\ (subscriptionId \in Ids
                          /\ subs[subscriptionId].status \in TerminalStatuses)
                         => resp'.code = 400
      ]_vars

C4_Witness ==
    /\ resp = Response("approveSubscription", 400)
    /\ \E i \in Ids : /\ subs[i].status = "failed"
                      /\ subs[i].userId \in Registered
                      /\ level[subs[i].userId] = DefaultLevel

\* C5: when approveSubscription answers 200 for a subscription whose user has a
\* User document, the subscription's status is 'success' and the user's
\* subscription level is the subscription's plan type.
C5_ApproveSetsLevel ==
    [][(resp'.op = "approveSubscription" /\ resp'.code = 200) =>
          \E i \in Ids :
             /\ subs[i].status # "success"
             /\ subs'[i].status = "success"
             /\ subs[i].userId \in Registered =>
                   level'[subs[i].userId] = subs'[i].planType
      ]_vars

C5_Witness ==
    /\ resp = Response("approveSubscription", 200)
    /\ \E i \in Ids : /\ subs[i].status = "success"
                      /\ subs[i].userId \in Registered
                      /\ level[subs[i].userId] = subs[i].planType

\* C6: rejectSubscription on a 'pending' or 'paid' subscription sets the status
\* to 'failed' and stores the reason when one is given; on any other status it
\* answers 400 and changes nothing; it never changes a subscription level.
C6_RejectGuard ==
    [][resp'.op = "rejectSubscription" =>
          /\ level' = level
          /\ resp'.code # 200 => subs' = subs
          /\ \A subscriptionId \in Ids, reason \in ReasonInputs :
                rejectSubscription(subscriptionId, reason) =>
                   IF subs[subscriptionId].status \in {"pending", "paid"}
                   THEN /\ resp'.code = 200
                        /\ subs'[subscriptionId].status = "failed"
                        /\ reason # "" => subs'[subscriptionId].rejectionReason = reason
                        /\ \A j \in Ids \ {subscriptionId} : subs'[j] = subs[j]
                   ELSE resp'.code = 400 /\ subs' = subs
      ]_vars

C6_Witness ==
    /\ resp = Response("rejectSubscription", 200)
    /\ \E i \in Ids : /\ subs[i].status = "failed"
                      /\ subs[i].rejectionReason = "duplicate"
                      /\ subs[i].paymentId # NoValue

\* C7: no two subscription documents share an orderId.
C7_OrderIdsDistinct ==
    \A i, j \in Ids : i # j => subs[i].orderId # subs[j].orderId

\* C8: a subscription level changes only in approveSubscription,
\* updateUserSubscription and updateUserSubscriptionLevel; every other handler
\* leaves every level as it was.
C8_LevelFrame ==
    [][level' # level =>
          resp'.op \in {"approveSubscription", "updateUserSubscription",
                         "updateUserSubscriptionLevel"}]_vars

C8_Witness ==
    /\ resp = Response("handlePaymentNotification", 200)
    /\ paidLog # {}
    /\ \A u \in Registered : level[u] = DefaultLevel

\* C9: a user's subscription level changes to a plan only after a notification
\* with a matching signature and the successful status code was accepted for a
\* subscription of that user.
C9_LevelOnlyAfterPayment ==
    [][\A u \in Registered :
          (level'[u] # level[u] /\ level'[u] # DefaultLevel) => u \in paidLog]_vars

\* the response the claim gives for a notification
ClaimedNotifyCode(merchant_id, order_id, payhere_amount, payhere_currency, status_code, md5sig) ==
    IF CalculatedMd5sig(merchant_id, order_id, payhere_amount, payhere_currency,
                        status_code) # md5sig THEN 400
    ELSE IF \A i \in Ids : subs[i].orderId # order_id THEN 404
    ELSE 200

\* C10: the webhook answers 400 for every signature that does not match, whether
\* or not the order is on record; 404 for a matching signature with an unknown
\* order id; 200 for a matching signature with an order on record, whatever the
\* status code; and a 400 or 404 leaves every document as it was.
C10_NotifyResponses ==
    /\ [](\A order_id \in OrderIdInputs, payhere_amount \in PayhereAmountInputs,
             payhere_currency \in CurrencyInputs, status_code \in StatusCodeInputs :
             \A md5sig \in SigInputs(order_id) :
                NotifyCode(MerchantId, order_id, payhere_amount, payhere_currency,
                           status_code, md5sig)
                = ClaimedNotifyCode(MerchantId, order_id, payhere_amount,
                                    payhere_currency, status_code, md5sig))
    /\ [][(resp'.op = "handlePaymentNotification" /\ resp'.code \in {400, 404}) =>
             UNCHANGED <<subs, level, paidLog>>]_vars

C10_Witness ==
    /\ resp = Response("handlePaymentNotification", 200)
    /\ \E i \in Ids : subs[i].status = "pending" /\ subs[i].paymentId # NoValue

\* the status the claim gives for a status code other than 2
ClaimedStatus(status_code) ==
    CASE status_code = "0" -> "pending"
      [] status_code = "-1" -> "canceled"
      [] status_code = "-2" -> "failed"
      [] status_code = "-3" -> "chargedback"
      [] OTHER -> "pending"

IsRequestedRecord(sub, userId, planType, amount) ==
    /\ sub.status = "pending"
    /\ sub.userId = userId
    /\ sub.planType = planType
    /\ sub.amount = amount.v

\* exactly one record is added and every other one is left as it was
AddsOneRecord ==
    /\ Len(subs') = Len(subs) + 1
    /\ \A i \in Ids : subs'[i] = subs[i]

\* C12 as stated: initializePayment by an authenticated user with a User
\* document and a numeric amount adds exactly one record, 'pending', of the
\* caller, with the requested plan type and amount and an end date 365 days
\* after its start date, and changes no other record; a call without a user
\* answers 401 and one by an unknown user 404.
C12_InitializeCreatesOne ==
    [][resp'.op = "initializePayment" =>
          \A userId \in AuthUsers \cup {NoUser}, planType \in PlanInputs,
             amount \in AmountInputs, t \in 1..MaxTime, r \in RandInputs,
             s \in 1..MaxTime, e \in 1..MaxTime :
             initializePayment(userId, planType, amount, t, r, s, e) =>
                /\ userId = NoUser => resp'.code = 401
                /\ userId \in AuthUsers \ Registered => resp'.code = 404
                /\ (userId \in Registered /\ amount.kind = "number") =>
                      /\ AddsOneRecord
                      /\ IsRequestedRecord(subs'[Len(subs')], userId, planType, amount)
                      /\ subs'[Len(subs')].endDate
                           = DateOf(subs'[Len(subs')].startDate.ms, ValidityDays)
      ]_vars

\* the readings of the clock a step of initializePayment can have made: those
\* in the record it added, or any (they are not used) if it added none
ClockReadings(field) ==
    IF Len(subs') = Len(subs) THEN {1}
    ELSE IF field = "createdAt" THEN {subs'[Len(subs')].createdAt}
    ELSE IF field = "startDate" THEN {subs'[Len(subs')].startDate.ms}
    ELSE {subs'[Len(subs')].endDate.ms}

\* C12 amended: for a plan type of the schema's enum and a numeric amount,
\* initializePayment by an authenticated user with a User document adds
\* exactly one record, 'pending', of the caller, with the requested plan type
\* and amount and an end date 365 days after a reading of the clock that is
\* not earlier than its start date, and changes no other record; a call
\* without a user answers 401, and one by an unknown user with such a plan
\* type and amount answers 404.
C12_InitializeCreatesValid ==
    [][resp'.op = "initializePayment" =>
          \A userId \in AuthUsers \cup {NoUser}, planType \in PlanInputs,
             amount \in AmountInputs, t \in ClockReadings("createdAt"),
             r \in RandInputs, s \in ClockReadings("startDate"),
             e \in ClockReadings("endDate") :
             initializePayment(userId, planType, amount, t, r, s, e) =>
                /\ userId = NoUser => resp'.code = 401
                /\ (planType \in planTypeEnum /\ amount.kind = "number") =>
                      /\ userId \in AuthUsers \ Registered => resp'.code = 404
                      /\ userId \in Registered =>
                            /\ resp'.code = 200
                            /\ AddsOneRecord
                            /\ IsRequestedRecord(subs'[Len(subs')], userId, planType,
                                                 amount)
                            /\ subs'[Len(subs')].endDate.days = ValidityDays
                            /\ subs'[Len(subs')].startDate.days = 0
                            /\ subs'[Len(subs')].endDate.ms
                                 >= subs'[Len(subs')].startDate.ms
      ]_vars

C12_Witness ==
    /\ resp.op = "initializePayment" /\ resp.code = 200
    /\ Len(subs) = 2
    /\ subs[2].userId = "u1" /\ subs[2].planType = "O/L Pro"
    /\ subs[2].endDate.ms > subs[2].startDate.ms

\* the double hash as the provider computes it from the fields of the form
ProviderHash(paymentData) ==
    Md5UpperHex(paymentData.merchant_id \o paymentData.order_id \o paymentData.amount
                \o paymentData.currency \o Md5UpperHex(MerchantSecret))

\* C15: the hash returned by initializePayment is the upper-case hex MD5 of
\* merchant id, order id, the amount with two decimals, the currency and the
\* upper-case hex MD5 of the merchant secret, concatenated: it is determined
\* by these five alone, whoever the user, whatever the plan type and the time.
C15_HashOfFiveInputs ==
    (resp.op = "initializePayment" /\ resp.code = 200)
       => resp.paymentData.hash = ProviderHash(resp.paymentData)

C15_Witness ==
    /\ resp.op = "initializePayment" /\ resp.code = 200
    /\ Len(subs) = 2
    /\ subs[1].orderId = subs[2].orderId
    /\ subs[1].planType # subs[2].planType
    /\ subs[1].userId # subs[2].userId
    /\ subs[1].startDate # subs[2].startDate

\* C18: an initializePayment call that does not answer 200 leaves the
\* subscription collection as it was.
C18_FailedInitiationLeavesNothing ==
    [][(resp'.op = "initializePayment" /\ resp'.code # 200) => subs' = subs]_vars

\* exactly one feedback is added and every other one is left as it was
AddsOneFeedback ==
    /\ Len(feedbacks') = Len(feedbacks) + 1
    /\ \A id \in FeedbackIds : feedbacks'[id] = feedbacks[id]

\* C13: every submitFeedback call with a text that is not blank, by a user
\* with a User document, stores exactly one feedback with the sentiment
\* 'positive' or 'negative' and answers 201, whether the classifier returns a
\* prediction or fails (to start, with a non-zero exit, with output that does
\* not parse); after a failure the stored confidence is 0.6.
C13_SubmitAlwaysStores ==
    [][resp'.op = "submitFeedback" =>
          \A userId \in Registered, feedback \in FeedbackInputs \ {NoValue},
             outcome \in ClassifierOutcomes :
             (Trim(feedback) # "" /\ submitFeedback(userId, feedback, outcome)) =>
                /\ resp'.code = 201
                /\ AddsOneFeedback
                /\ feedbacks'[Len(feedbacks')].sentiment \in {"positive", "negative"}
                /\ feedbacks'[Len(feedbacks')].user = userId
                /\ outcome.kind # "result" => feedbacks'[Len(feedbacks')].confidence = 60
      ]_vars

C13_Witness ==
    /\ resp = Response("submitFeedback", 201)
    /\ Len(feedbacks) = 2
    /\ feedbacks[2].sentiment = "positive" /\ feedbacks[2].confidence = 60
    /\ feedbacks[1].sentiment = "negative" /\ feedbacks[1].feedback = "too slow"

\* C14: every 200 response of getAllFeedback and getUserFeedback holds at most
\* itemsPerPage items, and its totalPages is ceil(totalItems / itemsPerPage),
\* whatever page and limit the caller gave.
C14_PageWithinLimit ==
    (resp.op \in {"getAllFeedback", "getUserFeedback"} /\ resp.code = 200) =>
       /\ \A k \in DOMAIN resp.items : k <= resp.pagination.itemsPerPage
       /\ resp.pagination.totalPages
            = CeilDiv(resp.pagination.totalItems, resp.pagination.itemsPerPage)

\* a feedback differs from another in the active flag at most
SameButActive(a, b) == [a EXCEPT !.isActive = b.isActive] = b

ActiveIds == {id \in FeedbackIds : feedbacks[id].isActive}
ItemsOf(items) == {items[k] : k \in DOMAIN items}

\* C20: a feedback whose active flag is false is never changed again, by
\* bulkUpdateFeedback or anything else, so the flag never returns to true; and
\* getAllFeedback, getUserFeedback, getFeedbackStats, getSentimentTrends and
\* exportFeedback neither return nor count it.
C20_SoftDeleteIsPermanent ==
    [][/\ \A id \in FeedbackIds : ~feedbacks[id].isActive => feedbacks'[id] = feedbacks[id]
       /\ (resp'.op \in {"getAllFeedback", "getUserFeedback"} /\ resp'.code = 200) =>
             /\ ItemsOf(resp'.items) \subseteq ActiveIds
             /\ resp'.pagination.totalItems <= Cardinality(ActiveIds)
       /\ (resp'.op = "exportFeedback" /\ resp'.code = 200) =>
             /\ ItemsOf(resp'.items) \subseteq ActiveIds
             /\ resp'.totalRecords <= Cardinality(ActiveIds)
       /\ resp'.op = "getFeedbackStats" =>
             /\ resp'.overall.total = Cardinality(ActiveIds)
             /\ resp'.overall.positive + resp'.overall.negative <= Cardinality(ActiveIds)
             /\ resp'.recent.total <= Cardinality(ActiveIds)
             /\ resp'.confidence.high + resp'.confidence.medium + resp'.confidence.low
                  <= Cardinality(ActiveIds)
       /\ resp'.op = "getSentimentTrends" =>
             \A k \in DOMAIN resp'.trends : resp'.trends[k].total <= Cardinality(ActiveIds)
      ]_vars

\* C16: approveSubscription writes the subscription and the user in two steps;
\* when the process dies between them (and no other request has run), the
\* subscription is 'success' while the level of its user is still the one
\* from before, not the plan type.
C16_ApproveIsTwoWrites ==
    \A p \in Procs :
       (/\ procs[p].op = "approveSubscription" /\ procs[p].pc = "user" /\ procs[p].failed
        /\ \A q \in Procs \ {p} : procs[q].pc = "idle") =>
          /\ subs[procs[p].sid].status = "success"
          /\ subs[procs[p].sid].userId \in Registered =>
                /\ level[subs[procs[p].sid].userId] = DefaultLevel
                /\ level[subs[procs[p].sid].userId] # subs[procs[p].sid].planType

C16_Witness ==
    \E p \in Procs :
       /\ procs[p].op = "approveSubscription" /\ procs[p].pc = "user" /\ procs[p].failed
       /\ \A q \in Procs \ {p} : procs[q].pc = "idle"
       /\ subs[procs[p].sid].status = "success"
       /\ subs[procs[p].sid].userId \in Registered
       /\ level[subs[procs[p].sid].userId] # subs[procs[p].sid].planType

\* C17: of an approveSubscription and a rejectSubscription request for one
\* subscription, however they interleave, at most one is answered 200.
C17_ApproveXorReject ==
    \A p, q \in Procs :
       ~ /\ procs[p].op = "approveSubscription" /\ procs[p].code = 200
         /\ procs[q].op = "rejectSubscription" /\ procs[q].code = 200
         /\ procs[p].sid = procs[q].sid

\* C21: in every getFeedbackStats response overall.positive + overall.negative
\* is overall.total, also when feedback is submitted and deleted while the
\* three counts of the handler are answered.
C21_StatsAddUp ==
    resp.op = "getFeedbackStats" =>
       resp.overall.positive + resp.overall.negative = resp.overall.total

C20_Witness ==
    /\ resp.op = "getFeedbackStats"
    /\ Len(feedbacks) = 2
    /\ ~feedbacks[1].isActive /\ ~feedbacks[1].reviewed
    /\ feedbacks[2].isActive /\ feedbacks[2].reviewed
    /\ resp.overall.total = 1

\* C22: checkPaymentStatus answers 401 without a caller, answers the same 404
\* for an order id of another user as for an order id that was never issued,
\* answers 200 only with the status, plan type and amount of a subscription of
\* the caller with that order id, and changes no record.
C22_StatusOnlyToOwner ==
    [][\A userId \in AuthUsers \cup {NoUser}, orderId \in OrderIdInputs :
          checkPaymentStatus(userId, orderId) =>
             /\ UNCHANGED <<subs, level, paidLog, feedbacks>>
             /\ userId = NoUser => resp' = Response("checkPaymentStatus", 401)
             /\ (/\ userId # NoUser
                 /\ \A i \in Ids : ~(subs[i].orderId = orderId /\ subs[i].userId = userId))
                   => resp' = Response("checkPaymentStatus", 404)
             /\ (/\ userId # NoUser
                 /\ \E i \in Ids : subs[i].orderId = orderId /\ subs[i].userId = userId)
                   => /\ resp'.code = 200
                      /\ \E i \in Ids : /\ subs[i].orderId = orderId
                                         /\ subs[i].userId = userId
                                         /\ resp'.status = subs[i].status
                                         /\ resp'.planType = subs[i].planType
                                         /\ resp'.amount = subs[i].amount]_vars

\* two users hold the same order id with different statuses, and the second
\* in natural order was told the status of its own subscription
C22_Witness ==
    /\ resp.op = "checkPaymentStatus" /\ resp.code = 200
    /\ \E i, j \in Ids : /\ i < j
                          /\ subs[i].orderId = subs[j].orderId
                          /\ subs[i].userId # subs[j].userId
                          /\ subs[i].status # subs[j].status
                          /\ resp.status = subs[j].status

\* C23: updateUserSubscription sets the level of a caller who is a user to the
\* plan type of a 'success' subscription of the caller that none of the
\* caller's 'success' subscriptions was created after, whatever its end date;
\* without a 'success' subscription it answers 404 and no level changes; no
\* subscription and no other user's level ever changes.
C23_ForcedUpdateTakesNewest ==
    [][\A userId \in AuthUsers \cup {NoUser} :
          updateUserSubscription(userId) =>
             LET Successful == {i \in Ids : subs[i].userId = userId
                                             /\ subs[i].status = "success"}
             IN  /\ subs' = subs
                 /\ \A other \in Registered \ {userId} : level'[other] = level[other]
                 /\ (userId # NoUser /\ Successful = {})
                       => resp'.code = 404 /\ level' = level
                 /\ (userId \in Registered /\ Successful # {})
                       => /\ resp'.code = 200
                          /\ \E i \in Successful :
                                /\ \A j \in Successful : subs[j].createdAt <= subs[i].createdAt
                                /\ level'[userId] = subs[i].planType]_vars

\* the caller has two 'success' subscriptions of different plans created at
\* different times, and the forced update left the plan of the later one
C23_Witness ==
    /\ resp = Response("updateUserSubscription", 200)
    /\ \E i, j \in Ids : /\ subs[i].userId = "u1" /\ subs[j].userId = "u1"
                          /\ subs[i].status = "success" /\ subs[j].status = "success"
                          /\ subs[i].createdAt < subs[j].createdAt
                          /\ subs[i].planType # subs[j].planType
                          /\ level["u1"] = subs[j].planType

====
